---- MODULE Spec2Model ----
(***************************************************************************)
(* Slowpoke GUI (app_version2.py): the table-to-protocol pipeline.         *)
(*                                                                         *)
(* The module models the shared utilities (process_plate_map_df,           *)
(* generate_plate_maps, generate_combinations, create_protocol,            *)
(* sanitize_df, detect_header_row, find_missing_parts_in_maps) as          *)
(* operators, and the two button handlers of main() (Golden Gate and       *)
(* Colony PCR) as actions.                                                 *)
(*                                                                         *)
(* A cell of a DataFrame is a Python scalar.  It is modelled as a record   *)
(*   [k |-> kind, s |-> characters, n |-> number]                          *)
(* with kind "str" (s holds the characters), "int" (n is the value),       *)
(* "float" (n is the value in halves, so n = 3 is 1.5) or "na" (NaN /      *)
(* pd.NA, the empty marker).  A text is a sequence of one-character        *)
(* strings; a DataFrame is the sequence of rows that df.iterrows() yields. *)
(***************************************************************************)
EXTENDS Integers, Sequences, FiniteSets, TLC

VARIABLES
    tab,          \* the tab whose four uploaders hold files: "gg" or "pcr"
    files,        \* the uploads of that tab: [map1, map2, comb, tpl]
    header_mode,  \* the radio button: "Yes" or "No"
    clicked,      \* the button whose handler produced the page: "none", "gg", "pcr"
    dfs,          \* the three DataFrames as handed to the builders
    combos,       \* the CombinationList the handler built
    missing,      \* what find_missing_parts_in_maps did in the handler
    errors,       \* the st.error messages on the page, in order
    download,     \* the st.download_button of the generated protocol
    fn_arg,       \* argument of a utility called on its own
    fn_ret        \* its result

vars == <<tab, files, header_mode, clicked, dfs, combos, missing, errors,
          download, fn_arg, fn_ret>>

(***************************************************************************)
(* Bounds of the model.                                                    *)
(***************************************************************************)
MaxRows == 2

(***************************************************************************)
(* Python scalars.                                                         *)
(***************************************************************************)
NaN == [k |-> "na", s |-> <<>>, n |-> 0]

PyStr(chars) == [k |-> "str", s |-> chars, n |-> 0]

PyInt(v) == [k |-> "int", s |-> <<>>, n |-> v]

PyFloat(halves) == [k |-> "float", s |-> <<>>, n |-> halves]

\* pd.notna(x) / pd.isna(x)
notna(x) == x.k # "na"

isna(x) == x.k = "na"

\* isinstance(x, str), isinstance(x, (int, float))
IsStr(x) == x.k = "str"

IsNumber(x) == x.k \in {"int", "float"}

\* The numeric value of an int or a float, in halves.
Halves(x) == IF x.k = "int" THEN 2 * x.n ELSE x.n

\* Python's ==, as set membership and set.add use it: texts compare by their
\* characters, an int and a float compare by value, a text never equals a number.
PyEq(a, b) ==
    IF IsStr(a) /\ IsStr(b) THEN a.s = b.s
    ELSE IF IsNumber(a) /\ IsNumber(b) THEN Halves(a) = Halves(b)
    ELSE FALSE

\* Code points of the characters the model uses.
Ord(c) ==
    CASE c = " " -> 32
      [] c = "." -> 46
      [] c = "1" -> 49
      [] c = "2" -> 50
      [] c = "5" -> 53
      [] c = "A" -> 65
      [] c = "B" -> 66
      [] c = "Z" -> 90
      [] c = "c" -> 99
      [] OTHER -> 120

Letters == {"A", "B", "Z", "c"}

Digits == {"1", "2", "5"}

Whitespace == {" "}

\* str < str: lexicographic by code point.
RECURSIVE StrLt(_, _)
StrLt(s, t) ==
    IF t = <<>> THEN FALSE
    ELSE IF s = <<>> THEN TRUE
    ELSE IF Ord(Head(s)) # Ord(Head(t)) THEN Ord(Head(s)) < Ord(Head(t))
    ELSE StrLt(Tail(s), Tail(t))

\* Python's <, where it is defined: between two texts or between two numbers.
Comparable(a, b) == (IsStr(a) /\ IsStr(b)) \/ (IsNumber(a) /\ IsNumber(b))

PyLt(a, b) ==
    IF IsStr(a) /\ IsStr(b) THEN StrLt(a.s, b.s) ELSE Halves(a) < Halves(b)

\* set.add(x) on a set kept as the sequence of its members.
SetAdd(set, x) ==
    IF \E i \in 1..Len(set) : PyEq(set[i], x) THEN set ELSE Append(set, x)

\* x in set
SetHas(set, x) == \E i \in 1..Len(set) : PyEq(set[i], x)

\* The two halves of a sequence of two or more members.  The loops below go
\* through a sequence in order, first half then second half.
FirstHalf(xs) == SubSeq(xs, 1, Len(xs) \div 2)

SecondHalf(xs) == SubSeq(xs, Len(xs) \div 2 + 1, Len(xs))

\* for item in items: set.add(item)
\* (Len(set) >= 0 is true; it has TLC evaluate the set built so far before the
\* loop goes on.)
RECURSIVE AddAll(_, _)
AddAll(set, items) ==
    IF Len(set) >= 0 /\ items = <<>> THEN set
    ELSE IF Len(items) = 1 THEN SetAdd(set, items[1])
    ELSE AddAll(AddAll(set, FirstHalf(items)), SecondHalf(items))

\* The concatenation of a sequence of sequences.
RECURSIVE Flatten(_)
Flatten(ss) ==
    IF ss = <<>> THEN <<>>
    ELSE IF Len(ss) = 1 THEN ss[1]
    ELSE Flatten(FirstHalf(ss)) \o Flatten(SecondHalf(ss))

\* sorted(xs): insertion of each member in its place; a comparison between a
\* text and a number raises TypeError, which any sort of two or more members
\* of both kinds must make.
RECURSIVE Insert(_, _)
Insert(sortedSeq, x) ==
    IF sortedSeq = <<>> THEN <<x>>
    ELSE IF PyLt(x, Head(sortedSeq)) THEN <<x>> \o sortedSeq
    ELSE <<Head(sortedSeq)>> \o Insert(Tail(sortedSeq), x)

RECURSIVE SortAll(_, _)
SortAll(acc, xs) ==
    IF Len(acc) >= 0 /\ xs = <<>> THEN acc
    ELSE IF Len(xs) = 1 THEN Insert(acc, xs[1])
    ELSE SortAll(SortAll(acc, FirstHalf(xs)), SecondHalf(xs))

sorted(xs) ==
    IF \E i, j \in 1..Len(xs) : ~Comparable(xs[i], xs[j])
    THEN [raised |-> TRUE, value |-> <<>>]
    ELSE [raised |-> FALSE, value |-> SortAll(<<>>, xs)]

(***************************************************************************)
(* Shared utilities.                                                       *)
(***************************************************************************)

\* df.iloc[1:].reset_index(drop=True)
iloc_from_1(df) == IF df = <<>> THEN <<>> ELSE Tail(df)

\* process_plate_map_df(df): the rows whose first cell is not NaN, each without
\* its NaN cells.
\* process_plate_map_df without the test of the first cell.
process_plate_map_df_all_rows(df) ==
    [i \in 1..Len(df) |-> SelectSeq(df[i], notna)]

process_plate_map_df(df) ==
    LET kept == SelectSeq(df, LAMBDA row : notna(row[1]))
    IN [i \in 1..Len(kept) |-> SelectSeq(kept[i], notna)]

\* generate_plate_maps(df1, df2): the dict, as its items in insertion order.
generate_plate_maps(df1, df2) ==
    << [key |-> "PlateMap1", plate |-> process_plate_map_df(df1)],
       [key |-> "PlateMap2", plate |-> process_plate_map_df(df2)] >>

\* generate_combinations(df): one {"name", "parts"} per row whose first cell
\* is not NaN.
\* generate_combinations keeping the NaN cells among the parts.
generate_combinations_keep_nan(df) ==
    LET kept == SelectSeq(df, LAMBDA row : notna(row[1]))
    IN [i \in 1..Len(kept) |-> [name |-> kept[i][1], parts |-> Tail(kept[i])]]

generate_combinations(df) ==
    LET kept == SelectSeq(df, LAMBDA row : notna(row[1]))
    IN [i \in 1..Len(kept) |->
           [name |-> kept[i][1], parts |-> SelectSeq(Tail(kept[i]), notna)]]

\* str.strip()
RECURSIVE lstrip(_)
lstrip(s) ==
    IF s # <<>> /\ Head(s) \in Whitespace THEN lstrip(Tail(s)) ELSE s

RECURSIVE rstrip(_)
rstrip(s) ==
    IF s # <<>> /\ s[Len(s)] \in Whitespace
    THEN rstrip(SubSeq(s, 1, Len(s) - 1))
    ELSE s

strip(s) == rstrip(lstrip(s))

\* re.fullmatch(r'^\s*$', s)
BlankText(s) == \A i \in 1..Len(s) : s[i] \in Whitespace

\* sanitize_df(df): strip every text cell, then turn every empty or
\* whitespace-only text into pd.NA.  Other cells pass through.
sanitize_cell(x) ==
    LET y == IF IsStr(x) THEN PyStr(strip(x.s)) ELSE x
    IN IF IsStr(y) /\ BlankText(y.s) THEN NaN ELSE y

sanitize_df(df) ==
    [r \in 1..Len(df) |-> [c \in 1..Len(df[r]) |-> sanitize_cell(df[r][c])]]

\* re.search(r'[A-Za-z]', s)
SearchLetter(s) == \E i \in 1..Len(s) : s[i] \in Letters

\* re.fullmatch(r"\d+(?:\.\d+)?", s)
AllDigits(s, from, to) == \A i \in from..to : s[i] \in Digits

FullMatchNumber(s) ==
    \E k \in 1..Len(s) :
        /\ AllDigits(s, 1, k)
        /\ \/ k = Len(s)
           \/ /\ k + 2 <= Len(s)
              /\ s[k + 1] = "."
              /\ AllDigits(s, k + 2, Len(s))

\* The test of line 90 without its text branch.
LooksNumeric_numbers_only(other) == IsNumber(other)

\* The test of line 90 on a cell below the first row.
LooksNumeric(other) ==
    IsNumber(other) \/ (IsStr(other) /\ FullMatchNumber(strip(other.s)))

\* detect_header_row(df)
detect_header_row(df) ==
    IF Len(df) < 2 THEN FALSE
    ELSE LET first == df[1]
         IN \E col_idx \in 1..Len(first) :
                /\ ~isna(first[col_idx])
                /\ IsStr(first[col_idx])
                /\ SearchLetter(first[col_idx].s)
                /\ \E r \in 2..Len(df) :
                       /\ ~isna(df[r][col_idx])
                       /\ LooksNumeric(df[r][col_idx])

\* The loop of lines 99-104: every cell of every row of every plate that is
\* not NaN, added to the set `available`.
Available(plate_maps_dict) ==
    LET cells == Flatten(Flatten([i \in 1..Len(plate_maps_dict) |->
                                      plate_maps_dict[i].plate]))
    IN AddAll(<<>>, SelectSeq(cells, notna))

\* The loop of lines 105-109 leaving at the first missing part.
Missing_first_only(combos_list, available) ==
    LET parts == Flatten([i \in 1..Len(combos_list) |-> combos_list[i].parts])
        absent == SelectSeq(parts, LAMBDA part : ~SetHas(available, part))
    IN IF absent = <<>> THEN <<>> ELSE <<absent[1]>>

\* The loop of lines 105-109: every part of every combination that is not in
\* `available`, added to the set `missing`.
Missing(combos_list, available) ==
    LET parts == Flatten([i \in 1..Len(combos_list) |-> combos_list[i].parts])
    IN AddAll(<<>>, SelectSeq(parts, LAMBDA part : ~SetHas(available, part)))

\* find_missing_parts_in_maps(combos_list, plate_maps_dict): sorted(missing),
\* or the TypeError of sorted().
find_missing_parts_in_maps(combos_list, plate_maps_dict) ==
    sorted(Missing(combos_list, Available(plate_maps_dict)))

(***************************************************************************)
(* json.dumps and create_protocol.  A text document is a sequence of       *)
(* pieces: the characters of the data and the punctuation json.dumps       *)
(* writes around them.                                                     *)
(***************************************************************************)
DigitChar(d) ==
    CASE d = 0 -> "0" [] d = 1 -> "1" [] d = 2 -> "2" [] d = 3 -> "3"
      [] d = 4 -> "4" [] d = 5 -> "5" [] d = 6 -> "6" [] d = 7 -> "7"
      [] d = 8 -> "8" [] OTHER -> "9"

\* str(n) of a non-negative int
RECURSIVE IntRepr(_)
IntRepr(v) ==
    IF v < 10 THEN <<DigitChar(v)>>
    ELSE IntRepr(v \div 10) \o <<DigitChar(v % 10)>>

\* float.__repr__ of a value given in halves
FloatRepr(halves) ==
    IntRepr(halves \div 2) \o <<".", IF halves % 2 = 0 THEN "0" ELSE "5">>

\* json.dumps of a scalar
dumps_scalar(x) ==
    CASE x.k = "str" -> <<"\"">> \o x.s \o <<"\"">>
      [] x.k = "int" -> IntRepr(x.n)
      [] x.k = "float" -> FloatRepr(x.n)
      [] OTHER -> <<"NaN">>

\* ", ".join(items)
RECURSIVE Join(_)
Join(items) ==
    IF items = <<>> THEN <<>>
    ELSE IF Len(items) = 1 THEN items[1]
    ELSE Join(FirstHalf(items)) \o <<", ">> \o Join(SecondHalf(items))

\* json.dumps of a list of scalars
dumps_list(xs) ==
    <<"[">> \o Join([i \in 1..Len(xs) |-> dumps_scalar(xs[i])]) \o <<"]">>

\* json.dumps of a plate map (a list of lists)
dumps_plate(plate) ==
    <<"[">> \o Join([i \in 1..Len(plate) |-> dumps_list(plate[i])]) \o <<"]">>

\* json.dumps(dict_obj)
dumps_dict(dict_obj) ==
    <<"{">>
    \o Join([i \in 1..Len(dict_obj) |->
                <<"\"", dict_obj[i].key, "\"", ": ">> \o dumps_plate(dict_obj[i].plate)])
    \o <<"}">>

\* json.dumps of one combination
dumps_combo(combo) ==
    <<"{", "\"", "name", "\"", ": ">> \o dumps_scalar(combo.name)
    \o <<", ", "\"", "parts", "\"", ": ">> \o dumps_list(combo.parts) \o <<"}">>

\* json.dumps(combos_list)
dumps_combos(combos_list) ==
    <<"[">> \o Join([i \in 1..Len(combos_list) |-> dumps_combo(combos_list[i])])
    \o <<"]">>

\* template_file.getvalue().decode("utf-8"): the text of the file, or
\* UnicodeDecodeError when the bytes are not UTF-8.
decode_utf8(template_file) ==
    [raised |-> ~template_file.utf8, text |-> template_file.body]

\* create_protocol writing the combinations before the plate maps.
create_protocol_swapped(dict_obj, combos_list, template_file, dict_name, combos_name) ==
    LET template_str == decode_utf8(template_file)
        header == <<combos_name, " = ">> \o dumps_combos(combos_list) \o <<"\n\n">>
                  \o <<dict_name, " = ">> \o dumps_dict(dict_obj) \o <<"\n\n">>
    IN IF template_str.raised
       THEN [raised |-> TRUE, text |-> <<>>]
       ELSE [raised |-> FALSE, text |-> header \o template_str.text]

\* create_protocol(dict_obj, combos_list, template_file, dict_name, combos_name)
create_protocol(dict_obj, combos_list, template_file, dict_name, combos_name) ==
    LET template_str == decode_utf8(template_file)
        header1 == <<dict_name, " = ">> \o dumps_dict(dict_obj) \o <<"\n\n">>
        header == header1 \o <<combos_name, " = ">> \o dumps_combos(combos_list)
                  \o <<"\n\n">>
    IN IF template_str.raised
       THEN [raised |-> TRUE, text |-> <<>>]
       ELSE [raised |-> FALSE, text |-> header \o template_str.text]

(***************************************************************************)
(* main(): the two button handlers.                                        *)
(***************************************************************************)
MaxCombinations == 96

MsgUpload == "Please upload all 4 files."

MsgMissingGG == "The following parts are missing from the plate maps"

MsgMissingPCR == "The following parts are missing from the colony/deck maps"

MsgCapacity == "Max 96 combinations allowed."

MsgException == "Error"

NoDfs == [set |-> FALSE, df1 |-> <<>>, df2 |-> <<>>, df3 |-> <<>>]

NoMissing == [called |-> FALSE, raised |-> FALSE, value |-> <<>>]

NoDownload == [offered |-> FALSE, label |-> "", data |-> <<>>]

\* What one run of the script leaves on the page.
Page(d, c, m, e, dl) ==
    [dfs |-> d, combos |-> c, missing |-> m, errors |-> e, download |-> dl]

\* all([file_fix, file_cust, file_comb, file_tpl])
all_uploaded(f) == f.tpl.present

\* Lines 213-216: what the handler does with the validator's outcome.
gg_validation(m) ==
    IF m.raised THEN "except"
    ELSE IF m.value # <<>> THEN "stop"
    ELSE "continue"

\* The validation of lines 290-294 without its st.stop().
pcr_validation_no_stop(m) == IF m.raised THEN "except" ELSE "continue"

\* Lines 290-294.
pcr_validation(m) ==
    IF m.raised THEN "except"
    ELSE IF m.value # <<>> THEN "stop"
    ELSE "continue"

\* Lines 201-206: the header handling of the Golden Gate handler.
gg_header(df1, df2, df3, mode) ==
    IF mode = "Yes"
    THEN [set |-> TRUE, df1 |-> iloc_from_1(df1), df2 |-> iloc_from_1(df2),
          df3 |-> iloc_from_1(df3)]
    ELSE [set |-> TRUE, df1 |-> df1, df2 |-> df2, df3 |-> df3]

\* Lines 272-279: the header handling of the Colony PCR handler.
pcr_header(df_col, df_deck, df_rec, mode) ==
    IF mode = "Yes"
    THEN [set |-> TRUE, df1 |-> df_col, df2 |-> df_deck, df3 |-> iloc_from_1(df_rec)]
    ELSE [set |-> TRUE, df1 |-> df_col, df2 |-> df_deck, df3 |-> df_rec]

\* Lines 222-236: the capacity check and the assembly.
gg_generate(d, dna_dict, cs, m, file_tpl) ==
    IF Len(cs) > MaxCombinations
    THEN Page(d, cs, m, <<MsgCapacity>>, NoDownload)
    ELSE LET proto == create_protocol(dna_dict, cs, file_tpl,
                                      "dna_plate_map_dict", "combinations_to_make")
         IN IF proto.raised
            THEN Page(d, cs, m, <<MsgException>>, NoDownload)
            ELSE Page(d, cs, m, <<>>,
                      [offered |-> TRUE, label |-> "Download Golden Gate Protocol",
                       data |-> proto.text])

\* Lines 296-311: the assembly.
pcr_generate(d, pcr_dict, cs, m, file_pcr_tpl) ==
    LET proto_pcr == create_protocol(pcr_dict, cs, file_pcr_tpl,
                                     "pcr_deck_colony_template_maps_dict",
                                     "pcr_recipe_to_make")
    IN IF proto_pcr.raised
       THEN Page(d, cs, m, <<MsgException>>, NoDownload)
       ELSE Page(d, cs, m, <<>>,
                 [offered |-> TRUE, label |-> "Download Colony PCR Protocol",
                  data |-> proto_pcr.text])

\* Lines 191-240: the handler of "Generate Golden Gate Protocol".
golden_gate(f, mode) ==
    IF ~all_uploaded(f)
    THEN Page(NoDfs, <<>>, NoMissing, <<MsgUpload>>, NoDownload)
    ELSE LET d == gg_header(sanitize_df(f.map1), sanitize_df(f.map2),
                            sanitize_df(f.comb), mode)
             dna_dict == generate_plate_maps(d.df1, d.df2)
             cs == generate_combinations(d.df3)
             found == find_missing_parts_in_maps(cs, dna_dict)
             m == [called |-> TRUE, raised |-> found.raised, value |-> found.value]
             gate == gg_validation(m)
         IN CASE gate = "except" -> Page(d, cs, m, <<MsgException>>, NoDownload)
              [] gate = "stop" -> Page(d, cs, m, <<MsgMissingGG>>, NoDownload)
              [] OTHER -> gg_generate(d, dna_dict, cs, m, f.tpl)

\* Lines 261-315: the handler of "Generate Colony PCR Protocol".
colony_pcr(f, mode) ==
    IF ~all_uploaded(f)
    THEN Page(NoDfs, <<>>, NoMissing, <<MsgUpload>>, NoDownload)
    ELSE LET d == pcr_header(sanitize_df(f.map1), sanitize_df(f.map2),
                             sanitize_df(f.comb), mode)
             pcr_dict ==
                 << [key |-> "colony_template_map", plate |-> process_plate_map_df(d.df1)],
                    [key |-> "pcr_deck_map", plate |-> process_plate_map_df(d.df2)] >>
             cs == generate_combinations(d.df3)
             found == find_missing_parts_in_maps(cs, pcr_dict)
             m == [called |-> TRUE, raised |-> found.raised, value |-> found.value]
             gate == pcr_validation(m)
         IN CASE gate = "except" -> Page(d, cs, m, <<MsgException>>, NoDownload)
              [] gate = "stop" -> Page(d, cs, m, <<MsgMissingPCR>>, NoDownload)
              [] OTHER -> pcr_generate(d, pcr_dict, cs, m, f.tpl)

\* The uploaders of the other tab are empty.
NoFiles ==
    [map1 |-> <<>>, map2 |-> <<>>, comb |-> <<>>,
     tpl |-> [present |-> FALSE, utf8 |-> TRUE, body |-> <<>>]]

Show(page) ==
    /\ dfs' = page.dfs
    /\ combos' = page.combos
    /\ missing' = page.missing
    /\ errors' = page.errors
    /\ download' = page.download

ClickGoldenGate ==
    /\ clicked' = "gg"
    /\ \E page \in {golden_gate(IF tab = "gg" THEN files ELSE NoFiles, header_mode)} :
           Show(page)
    /\ UNCHANGED <<tab, files, header_mode, fn_arg, fn_ret>>

ClickColonyPCR ==
    /\ clicked' = "pcr"
    /\ \E page \in {colony_pcr(IF tab = "pcr" THEN files ELSE NoFiles, header_mode)} :
           Show(page)
    /\ UNCHANGED <<tab, files, header_mode, fn_arg, fn_ret>>

\* Choosing the other radio option reruns the script with no button pressed.
ChangeHeaderMode ==
    /\ header_mode' = IF header_mode = "Yes" THEN "No" ELSE "Yes"
    /\ clicked' = "none"
    /\ Show(Page(NoDfs, <<>>, NoMissing, <<>>, NoDownload))
    /\ UNCHANGED <<tab, files, fn_arg, fn_ret>>

(***************************************************************************)
(* Inputs.                                                                 *)
(***************************************************************************)
\* All sequences over S of length 0..n.
SeqsUpTo(S, n) == UNION {[1..k -> S] : k \in 0..n}

\* Uploaded tables, as pd.read_csv(header=None) returns them: a column holds
\* texts, or numbers, with NaN for an empty field.
PlateRowPool ==
    { <<PyStr(<<" ", "A">>), PyFloat(2)>>,
      <<PyStr(<<"Z">>), NaN>>,
      <<PyStr(<<" ">>), PyFloat(2)>> }

PlateUploads == {<<r1, r2>> : r1 \in PlateRowPool, r2 \in PlateRowPool}

ComboRowPool ==
    { <<PyStr(<<"c">>), PyStr(<<"A">>), PyInt(1)>>,
      <<PyStr(<<"c">>), PyStr(<<"Z">>), PyInt(2)>>,
      <<PyStr(<<" ">>), PyStr(<<"A">>), PyInt(1)>> }

\* Tables of up to MaxRows rows, and tables of about MaxCombinations rows: a
\* first row and then copies of one row.
ComboUploads ==
    (SeqsUpTo(ComboRowPool, MaxRows) \ {<<>>})
    \cup { [i \in 1..len |-> IF i = 1 THEN r1 ELSE r2] :
             len \in {MaxCombinations, MaxCombinations + 1},
             r1 \in ComboRowPool, r2 \in ComboRowPool }

TemplateUploads ==
    { [present |-> FALSE, utf8 |-> TRUE, body |-> <<>>],
      [present |-> TRUE, utf8 |-> TRUE, body |-> <<"def run(protocol):", "\n">>],
      [present |-> TRUE, utf8 |-> FALSE, body |-> <<>>] }

NoCall == [done |-> FALSE, value |-> <<>>]

PageIdle ==
    /\ clicked = "none"
    /\ dfs = NoDfs
    /\ combos = <<>>
    /\ missing = NoMissing
    /\ errors = <<>>
    /\ download = NoDownload

Init ==
    /\ tab \in {"gg", "pcr"}
    /\ files \in [map1 : PlateUploads, map2 : PlateUploads, comb : ComboUploads,
                  tpl : TemplateUploads]
    /\ header_mode \in {"Yes", "No"}
    /\ PageIdle
    /\ fn_arg = <<>>
    /\ fn_ret = NoCall

Next == ClickGoldenGate \/ ClickColonyPCR \/ ChangeHeaderMode

Spec == Init /\ [][Next]_vars

(***************************************************************************)
(* The utilities called on their own.                                      *)
(***************************************************************************)
NoSession ==
    /\ tab = "gg"
    /\ files = NoFiles
    /\ header_mode = "Yes"
    /\ PageIdle

Return(v) ==
    /\ ~fn_ret.done
    /\ fn_ret' = [done |-> TRUE, value |-> v]
    /\ UNCHANGED <<tab, files, header_mode, clicked, dfs, combos, missing, errors,
                   download, fn_arg>>

\* Normalized tables of one, two or three columns.
BuilderCells == {NaN, PyStr(<<"A">>), PyInt(1)}

BuilderRows1 == {<<a>> : a \in BuilderCells}

BuilderRows2 == {<<a, b>> : a \in BuilderCells, b \in BuilderCells}

BuilderRows3 == {<<a, b, c>> : a \in BuilderCells, b \in BuilderCells, c \in BuilderCells}

BuilderTables ==
    SeqsUpTo(BuilderRows1, MaxRows) \cup SeqsUpTo(BuilderRows2, MaxRows)
    \cup SeqsUpTo(BuilderRows3, MaxRows)

InitPlateMap == NoSession /\ fn_arg \in BuilderTables /\ fn_ret = NoCall

CallProcessPlateMap == Return(process_plate_map_df(fn_arg))

SpecPlateMap == InitPlateMap /\ [][CallProcessPlateMap]_vars

InitCombinations == NoSession /\ fn_arg \in BuilderTables /\ fn_ret = NoCall

CallGenerateCombinations == Return(generate_combinations(fn_arg))

SpecCombinations == InitCombinations /\ [][CallGenerateCombinations]_vars

\* Raw tables of two columns, normalized by sanitize_df.
HeaderCells ==
    { NaN, PyStr(<<"A">>), PyStr(<<"1">>), PyStr(<<"1", ".", "5">>),
      PyStr(<<"1", ".">>), PyStr(<<" ", "1">>), PyStr(<<" ">>), PyInt(1) }

HeaderRows == {<<a, b>> : a \in HeaderCells, b \in HeaderCells}

HeaderTables == {sanitize_df(t) : t \in SeqsUpTo(HeaderRows, MaxRows)}

InitHeader == NoSession /\ fn_arg \in HeaderTables /\ fn_ret = NoCall

CallDetectHeaderRow == Return(detect_header_row(fn_arg))

SpecHeader == InitHeader /\ [][CallDetectHeaderRow]_vars

\* Combination lists and plate-map dicts of text, integer and decimal parts.
PartPool ==
    { PyStr(<<"A">>), PyStr(<<"B">>), PyInt(1), PyFloat(2), PyFloat(3) }

PartsPool ==
    {<<>>} \cup {<<a>> : a \in PartPool} \cup {<<a, b>> : a \in PartPool, b \in PartPool}

CombinationPool == {[name |-> PyStr(<<"c">>), parts |-> ps] : ps \in PartsPool}

PlatePool ==
    { <<>>,
      << <<PyStr(<<"A">>)>> >>,
      << <<PyStr(<<"B">>)>>, <<PyInt(1), NaN>> >> }

PlateDicts ==
    { << [key |-> "PlateMap1", plate |-> p1], [key |-> "PlateMap2", plate |-> p2] >> :
        p1 \in PlatePool, p2 \in PlatePool }

InitValidator ==
    /\ NoSession
    /\ fn_arg \in [combos_list : SeqsUpTo(CombinationPool, MaxRows),
                   plate_maps_dict : PlateDicts]
    /\ fn_ret = NoCall

CallFindMissingParts ==
    Return(find_missing_parts_in_maps(fn_arg.combos_list, fn_arg.plate_maps_dict))

SpecValidator == InitValidator /\ [][CallFindMissingParts]_vars

\* Arguments of create_protocol at its two call sites.
CallSites ==
    { [keys |-> <<"PlateMap1", "PlateMap2">>, dict_name |-> "dna_plate_map_dict",
       combos_name |-> "combinations_to_make"],
      [keys |-> <<"colony_template_map", "pcr_deck_map">>,
       dict_name |-> "pcr_deck_colony_template_maps_dict",
       combos_name |-> "pcr_recipe_to_make"] }

ProtocolCombos ==
    { [name |-> PyStr(<<"c">>), parts |-> <<>>],
      [name |-> PyStr(<<"c">>), parts |-> <<PyStr(<<"A">>), PyInt(1)>>],
      [name |-> PyInt(2), parts |-> <<PyFloat(3)>>] }

TemplatePieces == {"import x", "\n"}

InitProtocol ==
    /\ NoSession
    /\ \E site \in CallSites, p1 \in PlatePool, p2 \in PlatePool :
         \E cs \in SeqsUpTo(ProtocolCombos, MaxRows),
            body \in SeqsUpTo(TemplatePieces, MaxRows), ok \in BOOLEAN :
             fn_arg = [dict_obj |-> << [key |-> site.keys[1], plate |-> p1],
                                       [key |-> site.keys[2], plate |-> p2] >>,
                       combos_list |-> cs,
                       template_file |-> [present |-> TRUE, utf8 |-> ok,
                                          body |-> IF ok THEN body ELSE <<>>],
                       dict_name |-> site.dict_name,
                       combos_name |-> site.combos_name]
    /\ fn_ret = NoCall

CallCreateProtocol ==
    Return(create_protocol(fn_arg.dict_obj, fn_arg.combos_list, fn_arg.template_file,
                           fn_arg.dict_name, fn_arg.combos_name))

SpecProtocol == InitProtocol /\ [][CallCreateProtocol]_vars

(***************************************************************************)
(* Properties.                                                             *)
(***************************************************************************)
\* The n-th smallest member of a set of indices.
Nth(K, n) == CHOOSE i \in K : Cardinality({j \in K : j <= i}) = n

\* The members of xs at the indices K, in order.
Pick(xs, K) == [n \in 1..Cardinality(K) |-> xs[Nth(K, n)]]

\* The cells of a row that are not the empty marker, in column order.
NonEmptyCells(row) == Pick(row, {c \in 1..Len(row) : row[c] # NaN})

\* The rows of a table whose first cell is not the empty marker.
Surviving(df) == {r \in 1..Len(df) : df[r][1] # NaN}

\* The handler ran the pipeline up to the validator, which returned.
ValidatorReturned == clicked # "none" /\ missing.called /\ ~missing.raised

MsgMissing == IF clicked = "gg" THEN MsgMissingGG ELSE MsgMissingPCR

\* C1: in both workflows, when find_missing_parts_in_maps returns a non-empty
\* report, the handler shows that error and nothing else, and offers no
\* download (create_protocol is not reached).
C1_MissingPartsHalt ==
    (ValidatorReturned /\ missing.value # <<>>) =>
        /\ errors = <<MsgMissing>>
        /\ ~download.offered

C1_Witness ==
    /\ clicked = "pcr"
    /\ ValidatorReturned
    /\ missing.value # <<>>
    /\ Len(combos) > 1

\* C2: in both workflows, when the CombinationList has more than 96 entries and
\* every referenced part is in the plate maps, a capacity error is shown and no
\* download is offered (stated for the requests whose template decodes).
C2_CapacityBound ==
    (/\ ValidatorReturned
     /\ missing.value = <<>>
     /\ Len(combos) > MaxCombinations
     /\ files.tpl.utf8) =>
        /\ errors = <<MsgCapacity>>
        /\ ~download.offered

\* C3: in both workflows, with the flag Yes the first row of each of the three
\* tables is removed before the builders run, and with No none is.
C3_HeaderFlagUniform ==
    (clicked # "none" /\ dfs.set) =>
        LET t1 == sanitize_df(files.map1)
            t2 == sanitize_df(files.map2)
            t3 == sanitize_df(files.comb)
        IN IF header_mode = "Yes"
           THEN dfs.df1 = Tail(t1) /\ dfs.df2 = Tail(t2) /\ dfs.df3 = Tail(t3)
           ELSE dfs.df1 = t1 /\ dfs.df2 = t2 /\ dfs.df3 = t3

\* Some part of the combinations table is in neither plate map.
ReferencesAbsentPart ==
    LET Cells(df, from) ==
            UNION {{df[r][c] : c \in from..Len(df[r])} : r \in Surviving(df)}
    IN \E p \in Cells(dfs.df3, 2) \ {NaN} :
           \A x \in Cells(dfs.df1, 1) \cup Cells(dfs.df2, 1) : ~PyEq(p, x)

\* C4: when the combinations table references an absent part and has more than
\* 96 rows, the referential error is the one shown; a capacity error is shown
\* only when the missing-parts report is empty.
C4_ReferentialBeforeCapacity ==
    (clicked # "none" /\ dfs.set) =>
        /\ (ReferencesAbsentPart /\ Len(combos) > MaxCombinations) =>
               errors = <<MsgMissing>>
        /\ (\E i \in 1..Len(errors) : errors[i] = MsgCapacity) =>
               (ValidatorReturned /\ missing.value = <<>>)

\* C5: whenever find_missing_parts_in_maps returns, its result holds exactly the
\* referenced parts that equal no non-empty plate-map cell, in ascending order
\* without duplicates.
C5_ValidatorCompleteness ==
    (fn_ret.done /\ ~fn_ret.value.raised) =>
        LET result == fn_ret.value.value
            cl == fn_arg.combos_list
            pd == fn_arg.plate_maps_dict
            Members(xs) == {xs[i] : i \in 1..Len(xs)}
            referenced == UNION {Members(combo.parts) : combo \in Members(cl)}
            present == UNION {UNION {Members(row) : row \in Members(entry.plate)} :
                                 entry \in Members(pd)} \ {NaN}
            absent(p) == \A x \in present : ~PyEq(p, x)
        IN /\ \A n \in 1..Len(result) : result[n] \in referenced /\ absent(result[n])
           /\ \A p \in referenced : absent(p) => \E n \in 1..Len(result) : PyEq(result[n], p)
           /\ \A n \in 1..(Len(result) - 1) : PyLt(result[n], result[n + 1])

C5_Witness ==
    /\ fn_ret.done
    /\ ~fn_ret.value.raised
    /\ fn_ret.value.value = <<PyInt(1), PyFloat(3)>>
    /\ Len(fn_arg.combos_list) = 2
    /\ fn_arg.combos_list[1].parts = <<PyFloat(3), PyInt(1)>>
    /\ fn_arg.combos_list[2].parts = <<PyFloat(2), PyStr(<<"A">>)>>
    /\ fn_arg.plate_maps_dict[1].plate = << <<PyStr(<<"A">>)>> >>
    /\ fn_arg.plate_maps_dict[2].plate = <<>>

\* C6: find_missing_parts_in_maps returns a report for every input of text,
\* integer and decimal scalars; it never raises.
C6_ValidatorTotal == fn_ret.done => ~fn_ret.value.raised

\* C7: process_plate_map_df outputs one row per input row whose first cell is
\* non-empty, in order; each is that row's non-empty cells in column order; no
\* output row is empty and no output cell is the empty marker.
C7_PlateMapRows ==
    fn_ret.done =>
        LET out == fn_ret.value
            rows == Pick(fn_arg, Surviving(fn_arg))
        IN /\ Len(out) = Cardinality(Surviving(fn_arg))
           /\ \A n \in 1..Len(out) :
                  /\ out[n] = NonEmptyCells(rows[n])
                  /\ out[n] # <<>>
                  /\ \A c \in 1..Len(out[n]) : out[n][c] # NaN

C7_Witness ==
    /\ fn_ret.done
    /\ Len(fn_arg) = 2
    /\ Len(fn_ret.value) = 1
    /\ fn_arg[1][1] = NaN
    /\ Len(fn_ret.value[1]) = 2
    /\ Len(fn_arg[2]) = 3

\* C8: generate_combinations emits one Combination per input row whose first
\* cell is non-empty, in order; its name is that row's first cell and its parts
\* are the row's remaining non-empty cells in column order.
C8_CombinationRows ==
    fn_ret.done =>
        LET out == fn_ret.value
            rows == Pick(fn_arg, Surviving(fn_arg))
        IN /\ Len(out) = Cardinality(Surviving(fn_arg))
           /\ \A n \in 1..Len(out) :
                  /\ out[n].name = rows[n][1]
                  /\ out[n].name # NaN
                  /\ out[n].parts = NonEmptyCells(Tail(rows[n]))

C8_Witness ==
    /\ fn_ret.done
    /\ Len(fn_arg) = 2
    /\ Len(fn_ret.value) = 1
    /\ fn_arg[1][1] = NaN
    /\ Len(fn_arg[2]) = 3
    /\ Len(fn_ret.value[1].parts) = 1

\* C9: the text create_protocol returns is the assignment of the serialized
\* plate maps to dict_name, a blank line, the assignment of the serialized
\* combinations to combos_name, a blank line and the template body, in that
\* order: the template body is its suffix, unchanged.
C9_ProtocolLayout ==
    (fn_ret.done /\ ~fn_ret.value.raised) =>
        LET text == fn_ret.value.text
            body == fn_arg.template_file.body
            d == dumps_dict(fn_arg.dict_obj)
            c == dumps_combos(fn_arg.combos_list)
            at == 4 + Len(d)
        IN /\ Len(text) = Len(d) + Len(c) + Len(body) + 6
           /\ SubSeq(text, 1, 2) = <<fn_arg.dict_name, " = ">>
           /\ SubSeq(text, 3, 2 + Len(d)) = d
           /\ text[3 + Len(d)] = "\n\n"
           /\ SubSeq(text, at, at + 1) = <<fn_arg.combos_name, " = ">>
           /\ SubSeq(text, at + 2, at + 1 + Len(c)) = c
           /\ text[at + 2 + Len(c)] = "\n\n"
           /\ SubSeq(text, Len(text) - Len(body) + 1, Len(text)) = body

C9_Witness ==
    /\ fn_ret.done
    /\ ~fn_ret.value.raised
    /\ Len(fn_arg.template_file.body) = 2
    /\ Len(fn_arg.combos_list) = 2
    /\ fn_arg.dict_obj[1].plate # <<>>

\* A text with at least one alphabetic character.
HasAlphabetic(x) == x.k = "str" /\ \E i \in 1..Len(x.s) : x.s[i] \in Letters

\* A text of digits only, with an optional single decimal part.
DigitsWithOptionalDecimal(x) ==
    /\ x.k = "str"
    /\ LET dots == {i \in 1..Len(x.s) : x.s[i] = "."}
       IN /\ x.s # <<>>
          /\ \A i \in (1..Len(x.s)) \ dots : x.s[i] \in Digits
          /\ Cardinality(dots) <= 1
          /\ \A i \in dots : 1 < i /\ i < Len(x.s)

\* C10: detect_header_row is false for a table of fewer than 2 rows; otherwise
\* it is true exactly when some column has a first-row text with a letter and,
\* below it, a non-empty cell that is a number or a text of digits with an
\* optional decimal part.
C10_HeaderSniffer ==
    fn_ret.done =>
        LET df == fn_arg
        IN fn_ret.value =
              /\ Len(df) >= 2
              /\ \E col \in 1..Len(df[1]) :
                     /\ df[1][col] # NaN
                     /\ HasAlphabetic(df[1][col])
                     /\ \E r \in 2..Len(df) :
                            /\ df[r][col] # NaN
                            /\ \/ df[r][col].k \in {"int", "float"}
                               \/ DigitsWithOptionalDecimal(df[r][col])

C10_Witness ==
    /\ fn_ret.done
    /\ fn_ret.value = TRUE
    /\ Len(fn_arg) = 2
    /\ fn_arg[2][1] = NaN
    /\ fn_arg[2][2] = PyStr(<<"1", ".", "5">>)

====
